---- MODULE Spec2Model ----
(***************************************************************************)
(* Verification model of the merculy news curation engine:                 *)
(*   - NewsService.get_news_by_topic / get_news_by_multiple_topics         *)
(*     (src/src/services/news_service.py): the per-topic fetch and the     *)
(*     three-pass multi-topic curation run;                                *)
(*   - the AI enrichment of articles (src/app/services/gemini.py and the   *)
(*     enrichment block of src/src/routes/news.py);                        *)
(*   - the bias corroboration worker                                       *)
(*     (src/src/services/gemini_service.py, cosmos_service.py).            *)
(***************************************************************************)
EXTENDS Integers, Sequences, FiniteSets, Bags, TLC

(***************************************************************************)
(* Bounds of the model.                                                    *)
(***************************************************************************)
\* longest topic list of one curation run
MaxTopics == 2
\* largest total limit of one curation run
MaxLimit == 6
\* number of distinct article URLs the upstream news API can return
MaxUrl == 3
\* largest number of source domains of one run
MaxSources == 2
\* longest article list of one upstream response
MaxResp == 2
\* largest number of words in one answer of the AI text service
MaxWords == 3
\* longest list of fetched articles handed to deduplicate_articles
MaxMerged == 3
\* largest number of pieces (runs of text, line breaks) of a candidate's body
MaxPieces == 3

VARIABLES
    \* ---- one call of get_news_by_multiple_topics ----
    pc,               \* position in the call: call, pass1, pass2, pass3, done
    topics,           \* argument: the requested topic list
    limit,            \* argument: the total limit
    selected_sources, \* local: the source domains of the run
    idx,              \* position of the running for-loop in topics (1-based)
    news_by_topic,    \* local: dict topic -> list of articles
    total_collected,  \* local
    remaining_limit,  \* local
    miss,             \* the <<pass, position>> whose fetch gave less than asked
    \* ---- one enrichment of a batch of articles ----
    epc,              \* idle, route (routes/news.py), enhance (gemini.py), done
    api_key,          \* Config.GEMINI_API_KEY is set (GeminiService.is_available)
    batch,            \* the articles being enriched, in order
    ek,               \* position of the for-loop in batch (1-based)
    \* ---- the bias corroboration workers and the document store ----
    status,           \* store: article id -> bias_analysis_status
    related_sources,  \* store: the related_sources container, a bag of records
    workers,          \* the started threads: a bag of the locals of _async_analysis
    \* ---- one GET /news/<topic>: the route and get_news_by_topic ----
    fpc,              \* idle, route, select, loop, returned, raised
    catalog,          \* store: the 'available-channels' item of newsConf
    followed,         \* the user's followed channel ids, in order
    user_channels,    \* argument of get_news_by_topic (empty: None or [])
    topic_limit,      \* argument `limit` of get_news_by_topic
    sources,          \* local selected_sources of get_news_by_topic
    di,               \* position of the for-loop in sources (1-based)
    collected,        \* local all_articles, and the list returned at the end
    params,           \* the queries sent upstream so far: domains, pageSize,
                      \* and ok: _make_news_api_request gave a result
    \* ---- one call of a function that touches no store ----
    fn,               \* the function called ("" when there is none)
    fn_pc,            \* idle, call, returned
    fn_args,          \* its arguments
    fn_result         \* what it returned

allocVars == <<pc, topics, limit, selected_sources, idx, news_by_topic,
               total_collected, remaining_limit, miss>>
enrichVars == <<epc, api_key, batch, ek>>
workerVars == <<status, related_sources, workers>>
fetchVars == <<fpc, catalog, followed, user_channels, topic_limit, sources,
               di, collected, params>>

callVars == <<fn, fn_pc, fn_args, fn_result>>

vars == <<allocVars, enrichVars, workerVars, fetchVars, callVars>>

\* no curation run is in progress
AllocIdle ==
    /\ pc = "done"
    /\ topics = <<>>
    /\ limit = 0
    /\ selected_sources = <<>>
    /\ idx = 1
    /\ news_by_topic = <<>>
    /\ total_collected = 0
    /\ remaining_limit = 0
    /\ miss = {}

\* no enrichment is in progress
EnrichIdle ==
    /\ epc = "idle"
    /\ api_key = FALSE
    /\ batch = <<>>
    /\ ek = 1

\* no article is stored and no worker thread exists
WorkerIdle ==
    /\ status = <<>>
    /\ related_sources = EmptyBag
    /\ workers = EmptyBag

\* no topic fetch is in progress
FetchIdle ==
    /\ fpc = "idle"
    /\ catalog = <<>>
    /\ followed = <<>>
    /\ user_channels = <<>>
    /\ topic_limit = 0
    /\ sources = <<>>
    /\ di = 1
    /\ collected = <<>>
    /\ params = <<>>

\* no such call is in progress
CallIdle ==
    /\ fn = ""
    /\ fn_pc = "idle"
    /\ fn_args = <<>>
    /\ fn_result = <<>>

Min(a, b) == IF a < b THEN a ELSE b
Max(a, b) == IF a > b THEN a ELSE b

(***************************************************************************)
(* The upstream news API.                                                  *)
(***************************************************************************)
Urls == 1..MaxUrl
Topics == 1..MaxTopics

\* one element of result['articles']: title / description present or not
RawArticles == [url : Urls, title : BOOLEAN, description : BOOLEAN]

SeqsUpTo(S, n) == UNION {[1..k -> S] : k \in 0..n}

\* a function as an explicit table, so that it is computed once
Tabulated(f) == f @@ <<>>

\* what _make_news_api_request returns: None (no key, non-200, exception:
\* ok is FALSE) or the decoded response, here its 'articles' list
ApiResults ==
    {[ok |-> FALSE, articles |-> <<>>]}
    \cup {[ok |-> TRUE, articles |-> a] : a \in SeqsUpTo(RawArticles, MaxResp)}

(***************************************************************************)
(* get_news_by_topic                                                       *)
(***************************************************************************)
\* the inner loop over result['articles'] (lines 119-134): keeps the articles
\* that have a title and a description, stops once source_limit are kept
RECURSIVE SourceArticles(_, _, _, _)
SourceArticles(raw, k, acc, source_limit) ==
    IF k > Len(raw) THEN acc
    ELSE IF raw[k].title /\ raw[k].description
         THEN LET acc2 == Append(acc, [url |-> raw[k].url])
              IN  IF Len(acc2) >= source_limit THEN acc2
                  ELSE SourceArticles(raw, k + 1, acc2, source_limit)
         ELSE SourceArticles(raw, k + 1, acc, source_limit)

\* mutant of FromSource: a failed query leaves an article behind
FromSource_Failed(result, source_limit) ==
    IF result.ok THEN SourceArticles(result.articles, 1, <<>>, source_limit)
    ELSE <<[url |-> 1]>>
\* lines 115-136 for one source: what the source adds to all_articles
FromSource(result, source_limit) ==
    IF result.ok THEN SourceArticles(result.articles, 1, <<>>, source_limit)
    ELSE <<>>

\* mutant of SourceLimit: the remainder is given to no source
SourceLimit_NoRemainder(lim, nsources, i) == Max(1, lim \div nsources)
\* mutant of SourceLimit: the remainder goes to the last sources
SourceLimit_Last(lim, nsources, i) ==
    Max(1, lim \div nsources) + (IF nsources - i < lim % nsources THEN 1 ELSE 0)
\* the limit of the i-th source (1-based here, 0-based in the code)
SourceLimit(lim, nsources, i) ==
    Max(1, lim \div nsources) + (IF i - 1 < lim % nsources THEN 1 ELSE 0)

\* mutant of Truncate: the slice is forgotten
Truncate_NoSlice(s, lim) == s
\* mutant of Truncate: the slice keeps one article more
Truncate_OneMore(s, lim) == SubSeq(s, 1, Min(lim + 1, Len(s)))

\* all_articles[:limit] for limit >= 0
Truncate(s, lim) == SubSeq(s, 1, Min(lim, Len(s)))

\* the largest limit get_news_by_multiple_topics passes to get_news_by_topic
\* (max_per_topic + can_add) and the largest source limit that comes of it
\* (news_per_source + 1)
max_per_topic == 2
extra_per_topic == 3
min_per_topic == 1
MaxFetch == max_per_topic + extra_per_topic

\* every list one source can add to all_articles, over all answers of the API,
\* by source limit
SourceOutcomes ==
    [k \in 1..(MaxFetch + 1) |-> {FromSource(r, k) : r \in ApiResults}]

\* every value of all_articles after the sources i..nsources (lines 104-136)
RECURSIVE AllArticlesFrom(_, _, _)
AllArticlesFrom(lim, nsources, i) ==
    IF i > nsources THEN {<<>>}
    ELSE {a \o b : a \in SourceOutcomes[SourceLimit(lim, nsources, i)],
                   b \in AllArticlesFrom(lim, nsources, i + 1)}

\* every list get_news_by_topic(topic, lim, sources) can return, over all
\* answers of the API, by limit and number of sources
GetNewsByTopic ==
    Tabulated(
        [lim \in 0..MaxFetch, nsources \in 1..MaxSources |->
            {Truncate(all_articles, lim) :
                all_articles \in AllArticlesFrom(lim, nsources, 1)}])

(***************************************************************************)
(* get_news_by_multiple_topics                                             *)
(***************************************************************************)
\* topic lists up to renaming of the topics: the k-th new topic of a list is
\* topic k (a list may name a topic more than once)
TopicLists ==
    {s \in SeqsUpTo(Topics, MaxTopics) :
        \A i \in 1..Len(s) :
            \/ s[i] = 1
            \/ \E j \in 1..(i - 1) : s[j] = s[i] \/ s[j] = s[i] - 1}

\* the source domains of a run, up to renaming of the domains
SourceLists == {[i \in 1..k |-> i] : k \in 1..MaxSources}

\* {article['url'] for article in news_by_topic[topic]}
ExistingUrls(articles) == {articles[k].url : k \in 1..Len(articles)}

\* the articles of a fetch "we don't already have"
RECURSIVE NewArticles(_, _)
NewArticles(fetched, existing_urls) ==
    IF fetched = <<>> THEN <<>>
    ELSE (IF Head(fetched).url \in existing_urls THEN <<>> ELSE <<Head(fetched)>>)
         \o NewArticles(Tail(fetched), existing_urls)

\* every value of new_articles[:cap] of a fetch with limit lim, by the URLs
\* the topic already has
NewOutcomes ==
    Tabulated(
        [lim \in 0..MaxFetch, nsources \in 1..MaxSources,
         existing_urls \in SUBSET Urls, cap \in 1..extra_per_topic |->
            {Truncate(NewArticles(f, existing_urls), cap) :
                f \in GetNewsByTopic[lim, nsources]}])

Put(d, k, v) == (k :> v) @@ d

\* URLs are opaque to the code (it only compares them), so the upstream's
\* URLs are numbered in the order a run first stores them: an article whose
\* URL is in no stored list carries the smallest URL that is in none
StoredUrls(d) == UNION {ExistingUrls(d[t]) : t \in DOMAIN d}

RECURSIVE InStorageOrder(_, _)
InStorageOrder(articles, known) ==
    IF articles = <<>> THEN TRUE
    ELSE /\ \/ Head(articles).url \in known
            \/ \A u \in Urls \ known : Head(articles).url <= u
         /\ InStorageOrder(Tail(articles), known \cup {Head(articles).url})

\* mutants of FirstPassContinues: the break comes one article early / late
FirstPassContinues_Early == total_collected + 1 < limit
FirstPassContinues_Late == total_collected <= limit

\* mutant of SecondPassContinues: the second pass stops with one unit left
SecondPassContinues_Early == remaining_limit > 1

\* "if total_collected >= limit: break" (line 172), negated
FirstPassContinues == total_collected < limit

\* "if remaining_limit > 0" and "if remaining_limit <= 0: break" (lines
\* 188-191), negated
SecondPassContinues == remaining_limit > 0

\* the same of the third pass (lines 216-219)
ThirdPassContinues == remaining_limit > 0

Init ==
    /\ pc = "call"
    /\ topics \in TopicLists
    /\ limit \in 0..MaxLimit
    /\ selected_sources \in SourceLists
    /\ idx = 1
    /\ news_by_topic = <<>>
    /\ total_collected = 0
    /\ remaining_limit = 0
    /\ miss = {}
    /\ EnrichIdle
    /\ WorkerIdle
    /\ FetchIdle
    /\ CallIdle

\* lines 153-168
Call ==
    /\ pc = "call"
    /\ pc' = IF topics = <<>> THEN "done" ELSE "pass1"
    /\ news_by_topic' = <<>>
    /\ total_collected' = 0
    /\ UNCHANGED <<topics, limit, selected_sources, idx, remaining_limit, miss>>
    /\ UNCHANGED <<enrichVars, workerVars, fetchVars, callVars>>

\* the mutant: the answer of the first fetch is stored whatever it holds
Stored_Always(topic_articles) == TRUE

\* `if topic_articles:` (line 182)
Stored(topic_articles) == topic_articles # <<>>

\* one iteration of the first for-loop (lines 171-184)
FirstPassStep ==
    /\ pc = "pass1"
    /\ idx <= Len(topics)
    /\ FirstPassContinues
    /\ \E topic_articles \in GetNewsByTopic[min_per_topic, Len(selected_sources)] :
        LET topic == topics[idx]
        IN  /\ InStorageOrder(topic_articles, StoredUrls(news_by_topic))
            /\ IF Stored(topic_articles)
               THEN /\ news_by_topic' = Put(news_by_topic, topic, topic_articles)
                    /\ total_collected' = total_collected + Len(topic_articles)
                    /\ miss' = miss
               ELSE /\ miss' = miss \cup {<<1, idx>>}
                    /\ UNCHANGED <<news_by_topic, total_collected>>
    /\ idx' = idx + 1
    /\ UNCHANGED <<pc, topics, limit, selected_sources, remaining_limit>>
    /\ UNCHANGED <<enrichVars, workerVars, fetchVars, callVars>>

\* the first loop ends (exhausted or break); line 187
FirstPassEnd ==
    /\ pc = "pass1"
    /\ (idx > Len(topics) \/ ~FirstPassContinues)
    /\ remaining_limit' = limit - total_collected
    /\ pc' = "pass2"
    /\ idx' = 1
    /\ UNCHANGED <<topics, limit, selected_sources, news_by_topic,
                   total_collected, miss>>
    /\ UNCHANGED <<enrichVars, workerVars, fetchVars, callVars>>

\* one iteration of the second for-loop (lines 189-212)
SecondPassStep ==
    /\ pc = "pass2"
    /\ SecondPassContinues
    /\ idx <= Len(topics)
    /\ LET topic == topics[idx] IN
        IF topic \in DOMAIN news_by_topic
           /\ Len(news_by_topic[topic]) < max_per_topic
        THEN \E new_articles \in
                NewOutcomes[max_per_topic, Len(selected_sources),
                            ExistingUrls(news_by_topic[topic]), 1] :
             /\ InStorageOrder(new_articles, StoredUrls(news_by_topic))
             /\ IF new_articles # <<>>
                THEN /\ news_by_topic' =
                          [news_by_topic EXCEPT ![topic] = Append(@, new_articles[1])]
                     /\ total_collected' = total_collected + 1
                     /\ remaining_limit' = remaining_limit - 1
                     /\ miss' = miss
                ELSE /\ miss' = miss \cup {<<2, idx>>}
                     /\ UNCHANGED <<news_by_topic, total_collected, remaining_limit>>
        ELSE UNCHANGED <<news_by_topic, total_collected, remaining_limit, miss>>
    /\ idx' = idx + 1
    /\ UNCHANGED <<pc, topics, limit, selected_sources>>
    /\ UNCHANGED <<enrichVars, workerVars, fetchVars, callVars>>

\* the second loop ends or is skipped; line 215
SecondPassEnd ==
    /\ pc = "pass2"
    /\ (~SecondPassContinues \/ idx > Len(topics))
    /\ remaining_limit' = limit - total_collected
    /\ pc' = "pass3"
    /\ idx' = 1
    /\ UNCHANGED <<topics, limit, selected_sources, news_by_topic,
                   total_collected, miss>>
    /\ UNCHANGED <<enrichVars, workerVars, fetchVars, callVars>>

\* one iteration of the third for-loop (lines 217-245)
ThirdPassStep ==
    /\ pc = "pass3"
    /\ ThirdPassContinues
    /\ idx <= Len(topics)
    /\ LET topic == topics[idx]
           can_add == Min(remaining_limit, extra_per_topic)
       IN
        IF topic \in DOMAIN news_by_topic /\ can_add > 0
        THEN \E articles_to_add \in
                NewOutcomes[max_per_topic + can_add, Len(selected_sources),
                            ExistingUrls(news_by_topic[topic]), can_add] :
            LET added_count == Len(articles_to_add)
            IN  /\ InStorageOrder(articles_to_add, StoredUrls(news_by_topic))
                /\ news_by_topic' =
                     [news_by_topic EXCEPT ![topic] = @ \o articles_to_add]
                /\ total_collected' = total_collected + added_count
                /\ remaining_limit' = remaining_limit - added_count
                /\ miss' = IF added_count < can_add
                           THEN miss \cup {<<3, idx>>} ELSE miss
        ELSE UNCHANGED <<news_by_topic, total_collected, remaining_limit, miss>>
    /\ idx' = idx + 1
    /\ UNCHANGED <<pc, topics, limit, selected_sources>>
    /\ UNCHANGED <<enrichVars, workerVars, fetchVars, callVars>>

\* the third loop ends or is skipped; return news_by_topic (line 247)
ThirdPassEnd ==
    /\ pc = "pass3"
    /\ (~ThirdPassContinues \/ idx > Len(topics))
    /\ pc' = "done"
    /\ UNCHANGED <<topics, limit, selected_sources, idx, news_by_topic,
                   total_collected, remaining_limit, miss>>
    /\ UNCHANGED <<enrichVars, workerVars, fetchVars, callVars>>

NextAlloc ==
    \/ Call
    \/ FirstPassStep
    \/ FirstPassEnd
    \/ SecondPassStep
    \/ SecondPassEnd
    \/ ThirdPassStep
    \/ ThirdPassEnd

SpecAlloc == Init /\ [][NextAlloc]_vars

(***************************************************************************)
(* Properties of the multi-topic curation run.                             *)
(***************************************************************************)
Range(s) == {s[i] : i \in DOMAIN s}

\* the number of articles a topic holds in news_by_topic
Count(t) == IF t \in DOMAIN news_by_topic THEN Len(news_by_topic[t]) ELSE 0

RECURSIVE SumCounts(_)
SumCounts(S) ==
    IF S = {} THEN 0
    ELSE LET t == CHOOSE x \in S : TRUE IN Count(t) + SumCounts(S \ {t})

\* the articles handed out over all topics
TotalUnits == SumCounts(DOMAIN news_by_topic)

\* the ceiling the allocation is documented with ("Max 5 per topic")
per_topic_ceiling == 5

\* the first-pass fetch at position i of the topic list returned an article
FirstFetchOk(i) == <<1, i>> \notin miss

\* no fetch of the first and second pass so far came back without a new article
NoMiss12 == \A m \in miss : m[1] = 3

\* C1: at every point of a multi-topic run (so after each of the three
\* passes), whatever the fetches return, the articles handed out over all
\* topics number at most the total limit and no topic holds a negative count.
C1_NeverOverLimit ==
    /\ TotalUnits <= limit
    /\ \A t \in Topics : Count(t) >= 0

\* C1 witness: a finished run that used its whole limit of at least 5
\* although some fetch fell short.
C1_Witness ==
    pc = "done" /\ limit >= 5 /\ TotalUnits = limit /\ miss # {}

\* C2 as stated: with a limit of at least the number of topics, every
\* requested topic ends with at least one article.
C2_EveryTopicServed ==
    (pc = "done" /\ topics # <<>> /\ limit >= Len(topics))
        => \A t \in Range(topics) : Count(t) >= 1

\* C2 amended: with a limit of at least the number of topics, a requested
\* topic ends with at least one article exactly when one of its first-pass
\* fetches returned an article; a topic whose first-pass fetches all came
\* back empty is absent from the result.
C2_ServedIffFetched ==
    (pc = "done" /\ topics # <<>> /\ limit >= Len(topics))
        => \A t \in Range(topics) :
              Count(t) >= 1 <=>
                  \E i \in 1..Len(topics) : topics[i] = t /\ FirstFetchOk(i)

\* C2 witness: a finished run with limit >= |topics| in which one topic was
\* served and another one got nothing from its first-pass fetch.
C2_Witness ==
    /\ pc = "done" /\ limit >= Len(topics)
    /\ \E t, u \in Range(topics) : Count(t) >= 1 /\ Count(u) = 0

C5_PerTopicCeiling ==
    \A t \in Topics : Count(t) <= per_topic_ceiling

\* C6 as stated: a run over a non-empty topic list whose fetches all delivered
\* what was asked ends with exactly min(limit, 5*|topics|) articles.
C6_UsesWholeBudget ==
    (pc = "done" /\ topics # <<>> /\ miss = {})
        => TotalUnits = Min(limit, per_topic_ceiling * Len(topics))

\* every article of the returned map, as <<topic, position>>
Returned ==
    {<<t, k>> : t \in DOMAIN news_by_topic, k \in 1..MaxFetch + extra_per_topic}
        \cap {p \in Topics \X (1..MaxFetch + extra_per_topic) :
                 p[1] \in DOMAIN news_by_topic /\ p[2] <= Len(news_by_topic[p[1]])}

\* C7 as stated: no two articles returned by one run share a URL.
C7_NoSharedUrl ==
    pc = "done" =>
        \A p, q \in Returned :
            p # q => news_by_topic[p[1]][p[2]].url # news_by_topic[q[1]][q[2]].url

(***************************************************************************)
(* AI enrichment of a batch of articles.                                   *)
(*   route:   the enrichment block of GET /news/<topic>                    *)
(*            (src/src/routes/news.py, with src/src/services/              *)
(*            gemini_service.py);                                          *)
(*   enhance: GeminiService.enhance_articles (src/app/services/gemini.py). *)
(* A text is a record: kind "none" is Python's None, kind "str" a string   *)
(* of `chars` characters taken from `of`.                                  *)
(***************************************************************************)
\* longest batch of articles handed to one enrichment
MaxBatch == 2

NoneText == [kind |-> "none", of |-> "", chars |-> 0]
Str(origin, n) == [kind |-> "str", of |-> origin, chars |-> n]
\* Python truth value of an Optional[str]
Truthy(t) == t.kind = "str" /\ t.chars > 0
\* t[:n]
Slice(t, n) == [t EXCEPT !.chars = Min(n, @)]

\* the bias vocabulary (BiasType, src/app/models/user.py:9-12)
BiasType == {"esquerda", "centro", "direita"}
\* a bias field nothing has been assigned to
NoBias == "None"

\* words an answer of the model can be made of, and str.lower() on them
Words == {"esquerda", "ESQUERDA", "Direita", "centro", "centro-direita", "neutro"}
Lower(w) ==
    CASE w = "ESQUERDA" -> "esquerda"
      [] w = "Direita" -> "direita"
      [] OTHER -> w
\* label in word (substring test), for lower-case words
HasLabel(w, label) ==
    \/ w = label
    \/ w = "centro-direita" /\ label \in {"centro", "direita"}

\* what GeminiService._make_request returns (gemini_service.py:16-50): None
\* (no key, HTTP error, exception) or the text of the first candidate
Replies ==
    {[ok |-> FALSE, words |-> <<>>]}
    \cup {[ok |-> TRUE, words |-> ws] : ws \in SeqsUpTo(Words, 2)}

\* 'label' in result.lower().strip()
InReply(label, reply) ==
    \E i \in 1..Len(reply.words) : HasLabel(Lower(reply.words[i]), label)

\* the mutant: the test for direita comes first
analyze_political_bias_RightFirst(reply) ==
    IF reply.ok /\ reply.words # <<>>
    THEN IF InReply("direita", reply) THEN "direita"
         ELSE IF InReply("esquerda", reply) THEN "esquerda"
         ELSE "centro"
    ELSE "centro"
\* GeminiService.analyze_political_bias (gemini_service.py:96-117)
analyze_political_bias(reply) ==
    IF reply.ok /\ reply.words # <<>>
    THEN IF InReply("esquerda", reply) THEN "esquerda"
         ELSE IF InReply("direita", reply) THEN "direita"
         ELSE "centro"
    ELSE "centro"

\* what summarize_article returns (gemini_service.py:52-63): the reply itself
SummaryReplies == {NoneText, Str("ai", 0), Str("ai", 180)}

\* generate_bullet_point_highlights (gemini_service.py:65-94): None for no
\* reply, otherwise at most 3 of the n non-blank lines of the reply; a list is
\* modelled by its lines 1..n, None and [] both by <<>> (the caller stores
\* neither)
HighlightReplies == {<<>>, <<1, 2>>, <<1, 2, 3, 4>>}
generate_bullet_point_highlights(lines) ==
    IF Len(lines) >= 3 THEN SubSeq(lines, 1, 3) ELSE lines

\* an article as get_news_by_topic hands it to the route (news_service.py
\* 121-130): summary is the description, no political_bias key
RouteArticle ==
    [summary |-> Str("description", 120), excerpt |-> NoneText,
     bias |-> NoBias, confidence_score |-> 0,
     bullet_point_highlights |-> <<>>, id |-> FALSE, ai_failed |-> FALSE]

\* an Article as fetch_curated_news hands it to enhance_articles
\* (src/app/models/user.py:47-57)
ExcerptLengths == {0, 120, 260}
EnhanceArticles ==
    {[summary |-> NoneText, excerpt |-> Str("excerpt", n),
      bias |-> NoBias, confidence_score |-> 0,
      bullet_point_highlights |-> <<>>, id |-> FALSE,
      ai_failed |-> FALSE] : n \in ExcerptLengths}

\* ---- src/app/services/gemini.py ----
\* what self.model.generate_content and json.loads give: an exception, text
\* that is no JSON, JSON that is no object, or an object with some of the
\* three keys. A confidence_score is a number of hundredths, or (num FALSE)
\* a value float() rejects.
JsonKeys == {"summary", "bias", "confidence_score"}
JsonBiases == BiasType \cup {"ESQUERDA", "neutro"}
JsonScores == {[num |-> TRUE, v |-> -10], [num |-> TRUE, v |-> 85],
               [num |-> TRUE, v |-> 150], [num |-> FALSE, v |-> 0]}
GenResponses ==
    {[kind |-> k, keys |-> {}, summary |-> NoneText, bias |-> "neutro",
      confidence_score |-> [num |-> FALSE, v |-> 0]] :
        k \in {"raise", "notjson", "notobject"}}
    \cup [kind : {"object"}, keys : SUBSET JsonKeys,
          summary : {NoneText, Str("ai", 150)}, bias : JsonBiases,
          confidence_score : JsonScores]

\* GeminiService._fallback_response (gemini.py:86-92)
fallback_response ==
    [summary |-> Str("Resumo nao disponivel no momento", 32),
     bias |-> "centro", confidence_score |-> 0]

\* gemini.py:71-72
ValidBias(b) == IF b \notin BiasType THEN "centro" ELSE b

\* gemini.py:79-84: the AI call failed, one of the except branches of
\* summarize_and_analyze_bias is taken (the model raised or is None, the
\* text is no JSON, a key is missing, the score is no number)
Failed(response) ==
    \/ response.kind # "object"
    \/ response.keys # JsonKeys
    \/ ~response.confidence_score.num

\* GeminiService.summarize_and_analyze_bias (gemini.py:27-84)
summarize_and_analyze_bias(response) ==
    IF response.kind # "object" THEN fallback_response
    ELSE IF response.keys # JsonKeys THEN fallback_response
    ELSE IF ~response.confidence_score.num THEN fallback_response
    ELSE [summary |-> response.summary,
          bias |-> ValidBias(response.bias),
          confidence_score |-> Max(0, Min(100, response.confidence_score.v))]

\* the length of the fallback summary cut from the excerpt (gemini.py:116)
summary_chars == 200

\* one iteration of the loop of enhance_articles (gemini.py:97-119)
EnhanceArticle ==
    /\ epc = "enhance"
    /\ ek <= Len(batch)
    /\ \E response \in GenResponses :
        LET analysis == summarize_and_analyze_bias(response)
            article == batch[ek]
        IN  batch' = [batch EXCEPT ![ek] =
                IF analysis.bias \in BiasType
                THEN [article EXCEPT !.summary = analysis.summary,
                                     !.bias = analysis.bias,
                                     !.confidence_score = analysis.confidence_score,
                                     !.ai_failed = Failed(response)]
                \* BiasType(...) raised: the except branch
                ELSE [article EXCEPT
                        !.summary = IF Truthy(article.excerpt)
                                    THEN Slice(article.excerpt, summary_chars)
                                    ELSE Str("Sem resumo", 10),
                        !.bias = "centro",
                        !.confidence_score = 0,
                        !.ai_failed = TRUE]]
    /\ ek' = ek + 1
    /\ UNCHANGED <<epc, api_key, allocVars, workerVars, fetchVars, callVars>>

\* return enhanced_articles (gemini.py:121)
EnhanceReturn ==
    /\ epc = "enhance"
    /\ ek > Len(batch)
    /\ epc' = "done"
    /\ UNCHANGED <<api_key, batch, ek, allocVars, workerVars, fetchVars, callVars>>

\* ---- src/src/routes/news.py ----
\* one iteration of the loop of the route (news.py:134-173): the enrichment
\* under `if gemini_service.is_available()`, then the save of the article
RouteEnrich ==
    /\ epc = "route"
    /\ ek <= Len(batch)
    /\ \E created \in BOOLEAN :
        LET article == batch[ek] IN
        IF api_key
        THEN \E summary \in SummaryReplies, lines \in HighlightReplies,
                reply \in Replies :
             LET bullet_highlights == generate_bullet_point_highlights(lines)
             IN  batch' = [batch EXCEPT ![ek] =
                    [article EXCEPT
                       !.summary = IF Truthy(summary) THEN summary ELSE @,
                       !.bullet_point_highlights =
                           IF bullet_highlights # <<>>
                           THEN bullet_highlights ELSE @,
                       !.bias = analyze_political_bias(reply),
                       !.id = created]]
        ELSE batch' = [batch EXCEPT ![ek] = [article EXCEPT !.id = created]]
    /\ ek' = ek + 1
    /\ UNCHANGED <<epc, api_key, allocVars, workerVars, fetchVars, callVars>>

\* return jsonify(...) (news.py:175-180)
RouteReturn ==
    /\ epc = "route"
    /\ ek > Len(batch)
    /\ epc' = "done"
    /\ UNCHANGED <<api_key, batch, ek, allocVars, workerVars, fetchVars, callVars>>

InitEnrich ==
    /\ AllocIdle
    /\ WorkerIdle
    /\ FetchIdle
    /\ CallIdle
    /\ epc \in {"route", "enhance"}
    /\ api_key \in BOOLEAN
    /\ epc = "enhance" => ~api_key
    /\ batch \in IF epc = "route" THEN SeqsUpTo({RouteArticle}, MaxBatch)
                                  ELSE SeqsUpTo(EnhanceArticles, MaxBatch)
    /\ ek = 1

NextEnrich ==
    \/ EnhanceArticle
    \/ EnhanceReturn
    \/ RouteEnrich
    \/ RouteReturn

SpecEnrich == InitEnrich /\ [][NextEnrich]_vars

\* C8: when an enrichment has returned, every article of the batch has a
\* summary that is not None and a bias that is one of esquerda, centro,
\* direita, whatever the AI service did (unavailable, error, malformed text).
C8_SummaryAndBiasSet ==
    epc = "done" =>
        \A k \in 1..Len(batch) :
            /\ batch[k].summary.kind = "str"
            /\ batch[k].bias \in BiasType

(***************************************************************************)
(* The bias corroboration worker: GeminiService.analyze_comprehensive_bias *)
(* (src/src/services/gemini_service.py:119-214) and the document store     *)
(* operations it uses (src/src/services/cosmos_service.py).                *)
(* Each call starts one thread; the threads and the store are the state.   *)
(* Nothing in the code reads a thread's identity, so the started threads   *)
(* are kept as a bag of their locals.                                      *)
(***************************************************************************)
\* number of stored articles
MaxArticles == 2
\* number of worker threads that can be started
MaxThreads == 2
\* longest list the news search answers with
MaxFound == 1

Articles == 1..MaxArticles

\* the statuses a worker ends with (gemini_service.py:196-201)
Terminal == {"available", "error"}

\* article_obj.source of every stored article, and the source names the
\* search can answer with
ArticleSource == "G1"
SourceNames == {"g1", "UOL"}
\* str.lower() on source names
LowerName(n) ==
    CASE n = "G1" -> "g1"
      [] n = "UOL" -> "uol"
      [] OTHER -> n

\* limit=3 of the search (gemini_service.py:142)
search_limit == 3
\* the cap on diverse candidates (gemini_service.py:154)
diverse_cap == 8

\* NewsService.search_news(query, limit) (news_service.py:309-340): [] for a
\* failed request, otherwise the articles with title and description, cut to
\* limit; an article is modelled by its source name
SearchResults(lim) ==
    {Truncate(found, lim) :
        found \in SeqsUpTo([source : SourceNames], MaxFound)}

\* the diversity filter (gemini_service.py:150-155)
RECURSIVE DiverseArticles(_, _, _)
DiverseArticles(related_articles, i, diverse_articles) ==
    IF i > Len(related_articles) THEN diverse_articles
    ELSE LET article == related_articles[i]
             kept == IF LowerName(article.source) # LowerName(ArticleSource)
                     THEN Append(diverse_articles, article)
                     ELSE diverse_articles
         IN  IF Len(kept) >= diverse_cap THEN kept
             ELSE DiverseArticles(related_articles, i + 1, kept)

\* the locals of a thread that analyze_comprehensive_bias(article) has just
\* started; `calls` is the list of the statuses it has asked the store to
\* write so far
NewWorker(article_id) ==
    [pc |-> "import", article_id |-> article_id, diverse_articles |-> <<>>,
     k |-> 1, related_sources_created |-> 0, arg |-> "", ret |-> "",
     calls |-> <<>>, raised |-> "", doc |-> ""]

\* the thread calls cosmos_service.update_article_bias_status(id, st) and
\* goes on at `ret` when it returns. First half of the update
\* (cosmos_service.py:516-523): the article is read; with the store
\* unavailable, the article not found or the read failing the update ends
\* without a write. The call and the read are one step of the thread; the
\* document read (its status) is kept in `doc` until it is written back.
CallUpdate(w, st, ret) ==
    {[w EXCEPT !.pc = IF found THEN "replace" ELSE ret,
               !.arg = st, !.ret = ret, !.calls = Append(@, st),
               !.doc = IF found THEN status[w.article_id] ELSE ""] :
        found \in BOOLEAN}

\* the started threads, and the bag after one of them has taken a step
Threads == BagToSet(workers)
Step(w, after) == (workers (-) SetToBag({w})) (+) SetToBag({after})

InitWorker ==
    /\ AllocIdle
    /\ EnrichIdle
    /\ FetchIdle
    /\ CallIdle
    \* no article has been analysed: its document has no status yet
    /\ status = [a \in Articles |-> "not_started"]
    /\ related_sources = EmptyBag
    /\ workers = EmptyBag

\* the RelatedSource record related_source_service.create_related_source
\* persists for a candidate
create_related_source(article_id, related_article, bias) ==
    [article_id |-> article_id, source |-> related_article.source,
     political_bias |-> bias]

\* the answers of the model while a worker classifies its candidates: none,
\* or a text that names a side
WorkerReplies ==
    {[ok |-> FALSE, words |-> <<>>], [ok |-> TRUE, words |-> <<"Direita">>]}

\* the articles a worker has been started for
Triggered == {w.article_id : w \in Threads}

\* the mutant: the caller joins the threads before it returns
StartReturns_Joined(ws) == \A w \in BagToSet(ws) : w.pc = "done"
\* lines 211-214: thread.start() is the last statement, there is no join, so
\* the call returns whatever the started threads ws are doing
StartReturns(ws) == TRUE

\* analyze_comprehensive_bias(article_obj) (gemini_service.py:210-214): the
\* thread is started and the call returns. Article ids are opaque: they are
\* taken in order.
Trigger(a) ==
    /\ BagCardinality(workers) < MaxThreads
    /\ StartReturns(workers)
    /\ \A b \in Articles : b < a => b \in Triggered
    /\ workers' = workers (+) SetToBag({NewWorker(a)})
    /\ UNCHANGED <<status, related_sources, allocVars, enrichVars, fetchVars, callVars>>

\* lines 129-136: the imports succeed and
\* update_article_bias_status(article_obj.id, 'generating') is called
MarkGenerating(w) ==
    /\ w.pc = "import"
    /\ \E after \in CallUpdate(w, "generating", "search") :
        workers' = Step(w, after)
    /\ UNCHANGED <<status, related_sources, allocVars, enrichVars, fetchVars, callVars>>

\* an import of lines 129-131 raises: the handler (lines 203-208) runs with
\* cosmos_service unbound, its update raises NameError and `except: pass`
\* swallows it
ImportRaises(w) ==
    /\ w.pc = "import"
    /\ workers' = Step(w, [w EXCEPT !.pc = "done", !.raised = "import"])
    /\ UNCHANGED <<status, related_sources, allocVars, enrichVars, fetchVars, callVars>>

\* the mutant: the `return` of line 147 is missing, the thread falls through
\* to the code after the search with no candidates
AfterNoResults_NoReturn == "candidates"
\* where the thread goes on after the 'error' of lines 144-147: it returns
AfterNoResults == "done"

\* lines 139-163: the query is built, the search is made and its results
\* are filtered; building the query or comparing sources can raise (no
\* title, no source name), which the handler of lines 203-208 turns into an
\* 'error' update
Search(w) ==
    /\ w.pc = "search"
    /\ \/ \E related_articles \in SearchResults(search_limit) :
            LET diverse_articles == DiverseArticles(related_articles, 1, <<>>)
            IN  \E after \in
                    IF related_articles = <<>>
                    THEN CallUpdate(w, "error", AfterNoResults)
                    ELSE IF diverse_articles = <<>>
                    THEN CallUpdate(w, "error", "done")
                    ELSE {[w EXCEPT !.pc = "candidates",
                                    !.diverse_articles = diverse_articles,
                                    !.k = 1,
                                    !.related_sources_created = 0]} :
                  workers' = Step(w, after)
       \/ \E after \in CallUpdate(w, "error", "done") :
            workers' = Step(w, [after EXCEPT !.raised = "search"])
    /\ UNCHANGED <<status, related_sources, allocVars, enrichVars, fetchVars, callVars>>

\* one iteration of the loop over the candidates (lines 164-193): the record
\* is created, or create_related_source returns nothing, or something raises
\* and the loop continues
Candidate(w) ==
    /\ w.pc = "candidates"
    /\ w.k <= Len(w.diverse_articles)
    /\ \E outcome \in {"created", "none", "raise"}, reply \in WorkerReplies :
        IF outcome = "created"
        THEN /\ related_sources' = related_sources (+) SetToBag({
                    create_related_source(w.article_id,
                                          w.diverse_articles[w.k],
                                          analyze_political_bias(reply))})
             /\ workers' = Step(w, [w EXCEPT !.k = @ + 1,
                                             !.related_sources_created = @ + 1])
        ELSE /\ related_sources' = related_sources
             /\ workers' = Step(w, [w EXCEPT !.k = @ + 1])
    /\ UNCHANGED <<status, allocVars, enrichVars, fetchVars, callVars>>

\* the mutant: the count of created records is not looked at
FinalStatus_Always(created) == "available"
\* the mutant: the run is reported as failed whatever was created
FinalStatus_Failed(created) == "error"
\* lines 196-201: the status the worker ends with
FinalStatus(created) == IF created > 0 THEN "available" ELSE "error"

\* lines 195-201: the final status is asked for
Finish(w) ==
    /\ w.pc = "candidates"
    /\ w.k > Len(w.diverse_articles)
    /\ \E after \in CallUpdate(w, FinalStatus(w.related_sources_created),
                              "done") :
        \* the loop is over: its variables are dead
        workers' = Step(w, [after EXCEPT !.diverse_articles = <<>>, !.k = 1])
    /\ UNCHANGED <<status, related_sources, allocVars, enrichVars, fetchVars, callVars>>

\* the mutant: the replace is addressed to one fixed document
ReplacedItem_First(w) == 1
\* cosmos_service.py:530: replace_item(item=article_id, ...), the id the
\* thread passed, which is article_obj.id
ReplacedItem(w) == w.article_id

\* update_article_bias_status, second half (cosmos_service.py:525-537): the
\* document is replaced, or replace_item raises and nothing is written
UpdateReplace(w) ==
    /\ w.pc = "replace"
    /\ \E replaced \in BOOLEAN :
        status' = IF replaced THEN [status EXCEPT ![ReplacedItem(w)] = w.arg]
                  ELSE status
    /\ workers' = Step(w, [w EXCEPT !.pc = w.ret, !.doc = ""])
    /\ UNCHANGED <<related_sources, allocVars, enrichVars, fetchVars, callVars>>

NextWorker ==
    \/ \E a \in Articles : Trigger(a)
    \/ \E w \in Threads : MarkGenerating(w)
    \/ \E w \in Threads : ImportRaises(w)
    \/ \E w \in Threads : Search(w)
    \/ \E w \in Threads : Candidate(w)
    \/ \E w \in Threads : Finish(w)
    \/ \E w \in Threads : UpdateReplace(w)

SpecWorker == InitWorker /\ [][NextWorker]_vars

(***************************************************************************)
(* Properties of the corroboration worker.                                 *)
(***************************************************************************)
\* the number of workers that have been started for article a
StartedFor(a) ==
    BagCardinality([w \in {x \in Threads : x.article_id = a} |-> workers[w]])

\* C9: every change of an article's status in the store is one of
\* not_started -> generating, generating -> available, generating -> error;
\* in particular the status never goes from not_started straight to
\* available or error.
C9_OnlyStateMachineSteps ==
    [][\A a \in Articles :
         status'[a] # status[a] =>
            <<status[a], status'[a]>> \in
                {<<"not_started", "generating">>, <<"generating", "available">>,
                 <<"generating", "error">>}]_vars

RecordsFor(a) ==
    BagCardinality([r \in {x \in BagToSet(related_sources) : x.article_id = a}
                        |-> related_sources[r]])

\* C11: an article whose stored status is available has at least one
\* RelatedSource record stored for it, and a worker asks for available only
\* when it has created at least one record.
C11_AvailableHasRelatedSource ==
    /\ \A a \in Articles : status[a] = "available" => RecordsFor(a) >= 1
    /\ \A w \in Threads :
         (\E i \in 1..Len(w.calls) : w.calls[i] = "available") =>
            /\ w.related_sources_created >= 1
            /\ RecordsFor(w.article_id) >= w.related_sources_created

\* an article is available, with a record created by its worker
C11_Witness ==
    \E w \in Threads :
        /\ status[w.article_id] = "available"
        /\ w.pc = "done"
        /\ w.related_sources_created >= 1
        /\ RecordsFor(w.article_id) >= 1

\* one step of the worker thread w, whichever it is
WorkerStep(w) ==
    \/ MarkGenerating(w)
    \/ ImportRaises(w)
    \/ Search(w)
    \/ Candidate(w)
    \/ Finish(w)
    \/ UpdateReplace(w)

\* fair scheduling: a started thread that can run is run in the end, for
\* each article; nothing obliges a caller to trigger
SpecWorkerFair ==
    /\ SpecWorker
    /\ \A a \in Articles :
         WF_vars(\E w \in Threads : w.article_id = a /\ WorkerStep(w))

\* C12: under fair scheduling, once a worker is triggered for an article the
\* stored status of the article is available or error in the end.
C12_EventuallyTerminal ==
    \A a \in Articles : (a \in Triggered) ~> (status[a] \in Terminal)

C14_ExceptionGivesError ==
    \A w \in Threads :
        (w.pc = "done" /\ w.raised # "" /\ StartedFor(w.article_id) = 1)
            => status[w.article_id] = "error"

\* C15: no RelatedSource record comes from a candidate of the article's own
\* source, whatever the case of the names; a run stores at most eight; and
\* a worker that has ended after storing k >= 1 records of other sources
\* leaves exactly k records and the status available.
C15_DiverseSourcesThenAvailable ==
    /\ \A r \in BagToSet(related_sources) :
         LowerName(r.source) # LowerName(ArticleSource)
    /\ \A w \in Threads :
         (w.pc = "done" /\ StartedFor(w.article_id) = 1) =>
            /\ RecordsFor(w.article_id) <= diverse_cap
            /\ RecordsFor(w.article_id) = w.related_sources_created
            /\ w.related_sources_created >= 1
                  => status[w.article_id] = "available"

\* C16: the read-then-replace of update_article_bias_status is atomic for
\* the article: whenever the stored status of an article changes, the thread
\* that replaces the document replaces the very status it had read, so no
\* write made in between is lost.
C16_ReplaceOverWhatWasRead ==
    [][\A a \in Articles :
          status'[a] # status[a] =>
             \E w \in Threads :
                /\ w.pc = "replace"
                /\ w.article_id = a
                /\ w.arg = status'[a]
                /\ w.doc = status[a]]_vars

\* the threads that take the step: those with one copy less after it
Stepping == {w \in Threads : CopiesIn(w, workers') < CopiesIn(w, workers)}

\* C17: a worker for article A changes only A's status and creates only
\* records of A: in every step that changes the status or the records of an
\* article, the thread that takes the step is a worker of that article.
C17_OnlyOwnArticle ==
    [][\A a \in Articles :
          (status'[a] # status[a] \/ RecordsFor(a)' # RecordsFor(a)) =>
             /\ Stepping # {}
             /\ \A w \in Stepping : w.article_id = a]_vars

\* workers of two articles have run together: one article is available with
\* its records while the other, its worker about to write, is untouched
C17_Witness ==
    \E w, v \in Threads :
        /\ w.article_id # v.article_id
        /\ status[w.article_id] = "available"
        /\ RecordsFor(w.article_id) >= 1
        /\ v.pc = "replace"
        /\ status[v.article_id] = "not_started"
        /\ RecordsFor(v.article_id) = 0

(***************************************************************************)
(* One GET /news/<topic>: the resolution of the followed channels          *)
(* (routes/news.py:113-129, the code of get_domain_from_channels), the     *)
(* choice of the source domains and the loop of get_news_by_topic.         *)
(***************************************************************************)
\* channel ids of the catalog; the domain of channel c is written c
ChannelIds == 1..MaxSources
\* an id no channel of the catalog has
UnknownId == 0
\* the hard-coded list of news_service.py:43-52, by its first two domains
DefaultDomains == <<101, 102>>

\* one entry of item['items']: no such channel, an active channel of a
\* country, or a channel with isActive false
ChannelKinds == {"absent", "br", "us", "inactive"}

\* the store as get_available_channels finds it: not available (or the read
\* raises), or the item with its channels
Catalogs ==
    {[available |-> FALSE, items |-> [c \in ChannelIds |-> "absent"]]}
    \cup {[available |-> TRUE, items |-> f] : f \in [ChannelIds -> ChannelKinds]}

\* cosmos_service.get_available_channels: [] when the store is unavailable,
\* else the channels of the item that are active, in the item's order
RECURSIVE ActiveFrom(_, _)
ActiveFrom(items, c) ==
    IF c > MaxSources THEN <<>>
    ELSE (IF items[c] \in {"br", "us"}
          THEN <<[id |-> c, domain |-> c, country |-> items[c]]>>
          ELSE <<>>) \o ActiveFrom(items, c + 1)

get_available_channels(cat) ==
    IF cat.available THEN ActiveFrom(cat.items, 1) ELSE <<>>

\* [channel['domain'] for channel in channels]
RECURSIVE DomainsOf(_)
DomainsOf(channels) ==
    IF channels = <<>> THEN <<>>
    ELSE <<Head(channels).domain>> \o DomainsOf(Tail(channels))

\* news_service.get_brazilian_sources_domains (lines 34-52)
get_brazilian_sources_domains(cat) ==
    LET channels == get_available_channels(cat)
    IN  IF channels # <<>>
        THEN DomainsOf(SelectSeq(channels, LAMBDA ch : ch.country = "br"))
        ELSE DefaultDomains

\* the followed lists: ids of the catalog and the unknown id, each at most
\* once, in increasing order
RECURSIVE Ascending(_, _)
Ascending(S, c) ==
    IF c > MaxSources THEN <<>>
    ELSE (IF c \in S THEN <<c>> ELSE <<>>) \o Ascending(S, c + 1)

FollowedLists == {Ascending(S, UnknownId) : S \in SUBSET (ChannelIds \cup {UnknownId})}

\* routes/news.py:116-129 (the same loop as get_domain_from_channels): the
\* domain of every followed id that is an active channel; an empty result
\* is passed on as None, which get_news_by_topic treats as an empty list
RECURSIVE ChannelDomains(_, _, _)
ChannelDomains(ids, all_channels, k) ==
    IF k > Len(ids) THEN <<>>
    ELSE DomainsOf(SelectSeq(all_channels, LAMBDA ch : ch.id = ids[k]))
         \o ChannelDomains(ids, all_channels, k + 1)

\* the answers of the news API to one domain query: no answer, or a list
\* of articles, the k-th with url k, with or without title and description
FetchResults ==
    {[ok |-> FALSE, articles |-> <<>>]}
    \cup UNION {
        {[ok |-> TRUE,
          articles |-> [k \in 1..n |->
                          [url |-> k, title |-> f[k][1], description |-> f[k][2]]]] :
            f \in [1..n -> {<<TRUE, TRUE>>, <<FALSE, TRUE>>, <<TRUE, FALSE>>}]} :
        n \in 0..MaxResp}

\* the articles one source adds, each with the domain it was asked from
FromDomain(result, source_limit, domain) ==
    LET source_articles == FromSource(result, source_limit)
    IN  [k \in 1..Len(source_articles) |->
            [url |-> source_articles[k].url, domain |-> domain]]

\* a topic fetch is asked for: any limit, any followed list, any catalog
InitFetch ==
    /\ AllocIdle
    /\ EnrichIdle
    /\ WorkerIdle
    /\ CallIdle
    /\ fpc = "route"
    /\ catalog \in Catalogs
    /\ followed \in FollowedLists
    /\ topic_limit \in 0..MaxLimit
    /\ user_channels = <<>>
    /\ sources = <<>>
    /\ di = 1
    /\ collected = <<>>
    /\ params = <<>>

\* routes/news.py:113-131: the followed ids are turned into domains and
\* get_news_by_topic is called
RouteResolve ==
    /\ fpc = "route"
    /\ user_channels' = ChannelDomains(followed, get_available_channels(catalog), 1)
    /\ fpc' = "select"
    /\ UNCHANGED <<catalog, followed, topic_limit, sources, di, collected, params>>
    /\ UNCHANGED <<allocVars, enrichVars, workerVars, callVars>>

\* lines 94-97: the source domains of the fetch
SelectedSources(channels, cat) ==
    IF channels # <<>> THEN channels ELSE get_brazilian_sources_domains(cat)

\* lines 94-100: the sources are chosen and the limit is divided by their
\* number, which raises ZeroDivisionError when there is none
SelectSources ==
    /\ fpc = "select"
    /\ sources' = SelectedSources(user_channels, catalog)
    /\ fpc' = IF Len(sources') = 0 THEN "raised" ELSE "loop"
    /\ UNCHANGED <<catalog, followed, user_channels, topic_limit, di, collected,
                   params>>
    /\ UNCHANGED <<allocVars, enrichVars, workerVars, callVars>>

\* lines 104-136, one iteration: the query of one domain is sent and its
\* articles are added; an article whose 'content' is null makes the string
\* concatenation of line 123 raise
QueryDomain ==
    /\ fpc = "loop"
    /\ di <= Len(sources)
    /\ LET source_limit == SourceLimit(topic_limit, Len(sources), di)
           query == [domains |-> sources[di],
                     pageSize |-> Min(source_limit, 100)]
       IN  \/ \E result \in FetchResults :
                /\ params' = Append(params, query @@ [ok |-> result.ok])
                /\ collected' = collected
                                \o FromDomain(result, source_limit, sources[di])
                /\ di' = di + 1
                /\ fpc' = fpc
           \/ /\ params' = Append(params, query @@ [ok |-> TRUE])
              /\ fpc' = "raised"
              /\ UNCHANGED <<collected, di>>
    /\ UNCHANGED <<catalog, followed, user_channels, topic_limit, sources>>
    /\ UNCHANGED <<allocVars, enrichVars, workerVars, callVars>>

\* line 139: return all_articles[:limit]
FetchReturn ==
    /\ fpc = "loop"
    /\ di > Len(sources)
    /\ collected' = Truncate(collected, topic_limit)
    /\ fpc' = "returned"
    /\ UNCHANGED <<catalog, followed, user_channels, topic_limit, sources, di,
                   params>>
    /\ UNCHANGED <<allocVars, enrichVars, workerVars, callVars>>

NextFetch ==
    \/ RouteResolve
    \/ SelectSources
    \/ QueryDomain
    \/ FetchReturn

SpecFetch == InitFetch /\ [][NextFetch]_vars

\* C18: get_news_by_topic never raises to its caller, whatever the limit,
\* the followed list, the state of the catalog and the answers upstream.
C18_NeverRaises == fpc # "raised"

\* C19: the domain list a topic fetch iterates over is never empty: the
\* followed ids that are unknown or inactive are skipped, and once the
\* sources are chosen there is at least one, which with no followed id
\* resolved and no Brazilian channel read is the default list.
C19_SourcesNeverEmpty ==
    fpc \in {"loop", "returned", "raised"} =>
        /\ \A k \in 1..Len(user_channels) :
              /\ user_channels[k] \in Range(followed)
              /\ user_channels[k] # UnknownId
              /\ catalog.items[user_channels[k]] \in {"br", "us"}
        /\ sources # <<>>
        /\ (user_channels = <<>>
               /\ get_brazilian_sources_domains(catalog) = <<>>)
              => sources = DefaultDomains

\* C20: for every limit >= 0 and every non-empty domain list the returned
\* list has at most limit articles, whatever each domain query returned.
C20_AtMostLimit ==
    (fpc = "returned" /\ sources # <<>>) => Len(collected) <= topic_limit

\* a fetch has returned a full list after collecting more than the limit:
\* every query asked for at least one article
C20_Witness ==
    /\ fpc = "returned"
    /\ Len(sources) > topic_limit
    /\ Len(collected) = topic_limit
    /\ topic_limit >= 1
    /\ \A k \in 1..Len(params) : params[k].pageSize >= 1

\* the number of collected articles that came from the k-th source
FromKth(k) ==
    Cardinality({j \in 1..Len(collected) : collected[j].domain = sources[k]})

\* C21: with base = max(1, limit div |domains|) and remainder = limit mod
\* |domains|, the i-th domain (0-based) is queried with base + 1 articles
\* when i < remainder and with base otherwise, and no domain contributes
\* more articles than that.
C21_SubLimits ==
    fpc \in {"loop", "returned"} =>
        LET base == IF topic_limit \div Len(sources) >= 1
                    THEN topic_limit \div Len(sources) ELSE 1
            remainder == topic_limit % Len(sources)
            sub(i) == IF i < remainder THEN base + 1 ELSE base
        IN  /\ \A k \in 1..Len(params) :
                 /\ params[k].domains = sources[k]
                 /\ params[k].pageSize = sub(k - 1)
            /\ \A k \in 1..Len(sources) : FromKth(k) <= sub(k - 1)

\* a fetch over several domains with a remainder: the first domain was
\* asked for one article more than the last and each gave all it was
\* asked for
C21_Witness ==
    /\ fpc = "loop"
    /\ Len(sources) >= 2
    /\ Len(params) = Len(sources)
    /\ params[1].pageSize = params[Len(sources)].pageSize + 1
    /\ \A k \in 1..Len(sources) : FromKth(k) = params[k].pageSize

\* the position of a domain in the list of sources
PositionOf(domain) == CHOOSE k \in 1..Len(sources) : sources[k] = domain

\* C22: a domain query that fails adds no article and the fetch goes on
\* with the next domain; the articles collected before it are kept, and the
\* list is in the order of the domain list.
C22_FailedDomainSkipped ==
    /\ [][Len(params') = Len(params) + 1 =>
             /\ SubSeq(collected', 1, Len(collected)) = collected
             /\ ~params'[Len(params')].ok =>
                  /\ collected' = collected
                  /\ fpc' = "loop"
                  /\ di' = di + 1]_vars
    /\ [](fpc \in {"loop", "returned"} =>
             /\ \A j \in 1..Len(collected) - 1 :
                   PositionOf(collected[j].domain)
                       <= PositionOf(collected[j + 1].domain)
             /\ \A k \in 1..Len(params) : ~params[k].ok => FromKth(k) = 0
             /\ fpc = "returned" => Len(params) = Len(sources))

\* the query of the first domain failed and the fetch has returned the
\* articles of the second
C22_Witness ==
    /\ fpc = "returned"
    /\ Len(params) = 2
    /\ ~params[1].ok
    /\ params[2].ok
    /\ collected # <<>>
    /\ \A j \in 1..Len(collected) : collected[j].domain = sources[2]

(***************************************************************************)
(* One call of analyze_political_bias (gemini_service.py:96-117), over     *)
(* every answer of the AI text service.                                    *)
(***************************************************************************)
\* what _make_request can return to analyze_political_bias: None, or a text
\* of up to MaxWords words
BiasReplies ==
    {[ok |-> FALSE, words |-> <<>>]}
    \cup {[ok |-> TRUE, words |-> ws] : ws \in SeqsUpTo(Words, MaxWords)}

InitBias ==
    /\ AllocIdle
    /\ EnrichIdle
    /\ WorkerIdle
    /\ FetchIdle
    /\ fn = "analyze_political_bias"
    /\ fn_pc = "call"
    /\ fn_args \in BiasReplies
    /\ fn_result = ""

\* lines 108-117: the answer is lower-cased and looked through
BiasReturn ==
    /\ fn = "analyze_political_bias"
    /\ fn_pc = "call"
    /\ fn_result' = analyze_political_bias(fn_args)
    /\ fn_pc' = "returned"
    /\ UNCHANGED <<fn, fn_args>>
    /\ UNCHANGED <<allocVars, enrichVars, workerVars, fetchVars>>

NextBias == BiasReturn

SpecBias == InitBias /\ [][NextBias]_vars

\* C23 as stated: an answer that contains esquerda yields esquerda, one
\* that contains direita yields direita, every other answer (an empty one,
\* none at all) yields centro, and the result is one of the three labels.
C23_TokenGivesLabel ==
    (fn = "analyze_political_bias" /\ fn_pc = "returned") =>
        /\ InReply("esquerda", fn_args) => fn_result = "esquerda"
        /\ InReply("direita", fn_args) => fn_result = "direita"
        /\ (~InReply("esquerda", fn_args) /\ ~InReply("direita", fn_args))
              => fn_result = "centro"
        /\ fn_result \in BiasType

\* C23, amended: an answer that contains esquerda yields esquerda, one that
\* contains direita and not esquerda yields direita, every other answer
\* yields centro, and the result is one of the three labels.
C23_LeftTokenFirst ==
    (fn = "analyze_political_bias" /\ fn_pc = "returned") =>
        /\ InReply("esquerda", fn_args) => fn_result = "esquerda"
        /\ (InReply("direita", fn_args) /\ ~InReply("esquerda", fn_args))
              => fn_result = "direita"
        /\ (~InReply("esquerda", fn_args) /\ ~InReply("direita", fn_args))
              => fn_result = "centro"
        /\ fn_result \in BiasType

\* an answer with both tokens, the right one first, has been classified
C23_Witness ==
    /\ fn = "analyze_political_bias"
    /\ fn_pc = "returned"
    /\ fn_args.ok
    /\ Len(fn_args.words) >= 2
    /\ Lower(fn_args.words[1]) = "direita"
    /\ InReply("esquerda", fn_args)
    /\ fn_result = "esquerda"

\* C24: when enhance_articles has returned, every article whose AI call
\* failed has for summary the first 200 characters of its excerpt, or the
\* fixed sentence when the excerpt is empty, with bias centro and
\* confidence 0.
C24_FallbackFromExcerpt ==
    epc = "done" =>
        \A k \in 1..Len(batch) :
            batch[k].ai_failed =>
                /\ Truthy(batch[k].excerpt)
                      => batch[k].summary = Slice(batch[k].excerpt, summary_chars)
                /\ ~Truthy(batch[k].excerpt)
                      => batch[k].summary \in {Str("Sem resumo", 10),
                                               fallback_response.summary}
                /\ batch[k].bias = "centro"
                /\ batch[k].confidence_score = 0

(***************************************************************************)
(* deduplicate_articles (src/app/services/news.py:159-169), as             *)
(* fetch_curated_news calls it on the articles of all the APIs.            *)
(***************************************************************************)
\* a fetched article: its url, and the API it came from
MergedArticles == [url : Urls, source : {"newsapi", "guardian"}]

\* the loop of lines 164-167 from the k-th article on
RECURSIVE Dedup(_, _, _, _)
Dedup(articles, k, seen_urls, unique_articles) ==
    IF k > Len(articles) THEN unique_articles
    ELSE IF articles[k].url \notin seen_urls
         THEN Dedup(articles, k + 1, seen_urls \cup {articles[k].url},
                    Append(unique_articles, articles[k]))
         ELSE Dedup(articles, k + 1, seen_urls, unique_articles)

\* the mutant: the url is not looked up in seen_urls
deduplicate_articles_NoCheck(articles) == articles
\* NewsService.deduplicate_articles
deduplicate_articles(articles) == Dedup(articles, 1, {}, <<>>)

\* fetch_curated_news, lines 173-181: the articles of the APIs, one list
InitDedup ==
    /\ AllocIdle
    /\ EnrichIdle
    /\ WorkerIdle
    /\ FetchIdle
    /\ fn = "deduplicate_articles"
    /\ fn_pc = "call"
    /\ fn_args \in SeqsUpTo(MergedArticles, MaxMerged)
    /\ fn_result = <<>>

DedupReturn ==
    /\ fn = "deduplicate_articles"
    /\ fn_pc = "call"
    /\ fn_result' = deduplicate_articles(fn_args)
    /\ fn_pc' = "returned"
    /\ UNCHANGED <<fn, fn_args>>
    /\ UNCHANGED <<allocVars, enrichVars, workerVars, fetchVars>>

NextDedup == DedupReturn

SpecDedup == InitDedup /\ [][NextDedup]_vars

\* the position of the first article of the input with url u
FirstWith(u) ==
    CHOOSE k \in 1..Len(fn_args) :
        /\ fn_args[k].url = u
        /\ \A j \in 1..(k - 1) : fn_args[j].url # u

\* C25: the result of deduplicate_articles holds exactly one article per
\* distinct url of the input, the first one with that url, in the order of
\* the input; and deduplicating the result again changes nothing.
C25_FirstOfEachUrl ==
    (fn = "deduplicate_articles" /\ fn_pc = "returned") =>
        LET urls == {fn_args[k].url : k \in 1..Len(fn_args)}
        IN  /\ Len(fn_result) = Cardinality(urls)
            /\ \A u \in urls :
                  \E j \in 1..Len(fn_result) : fn_result[j] = fn_args[FirstWith(u)]
            /\ \A i, j \in 1..Len(fn_result) :
                  i < j => FirstWith(fn_result[i].url) < FirstWith(fn_result[j].url)
            /\ deduplicate_articles(fn_result) = fn_result

\* two fetched articles with the same url, from two APIs, and a third:
\* the first of the two and the third are returned
C25_Witness ==
    /\ fn = "deduplicate_articles"
    /\ fn_pc = "returned"
    /\ Len(fn_args) = 3
    /\ fn_args[1].url = fn_args[2].url
    /\ fn_args[1].source # fn_args[2].source
    /\ fn_args[3].url # fn_args[1].url
    /\ fn_result = <<fn_args[1], fn_args[3]>>

\* C26: the surplus pass hands out one unit per topic per round, so that
\* when a run whose fetches all delivered has ended, the counts of any two
\* topics that are both below the ceiling differ by at most 1.
C26_SurplusRoundRobin ==
    (pc = "done" /\ miss = {}) =>
        \A t, u \in DOMAIN news_by_topic :
            (Count(t) < per_topic_ceiling /\ Count(u) < per_topic_ceiling)
                => Count(t) - Count(u) <= 1

\* the articles asked for by the first k queries of the fetch
RECURSIVE Requested(_)
Requested(k) == IF k = 0 THEN 0 ELSE params[k].pageSize + Requested(k - 1)

\* C27 as stated: for every limit >= 1 and every number of sources >= 1 the
\* sub-limits of the sources sum to exactly the limit.
C27_SplitSumsToLimit ==
    (fpc \in {"loop", "returned"} /\ Len(params) = Len(sources)
        /\ topic_limit >= 1)
        => Requested(Len(params)) = topic_limit

\* C27, amended: the sub-limits sum to exactly the limit when the limit is
\* at least the number of sources; below it every source is still asked
\* for one article and the first `limit` sources for two, limit plus the
\* number of sources in all.
C27_SplitSumsToLimitFromN ==
    (fpc \in {"loop", "returned"} /\ Len(params) = Len(sources)
        /\ topic_limit >= 1)
        => Requested(Len(params)) =
              IF topic_limit >= Len(sources) THEN topic_limit
              ELSE topic_limit + Len(sources)

\* every source of a fetch with a remainder has been queried and what was
\* asked for is the limit
C27_Witness ==
    /\ fpc = "loop"
    /\ Len(sources) >= 2
    /\ Len(params) = Len(sources)
    /\ topic_limit > Len(sources)
    /\ topic_limit % Len(sources) # 0
    /\ Requested(Len(params)) = topic_limit

(***************************************************************************)
(* The quote of a related source (gemini_service.py:166-169). A body is a  *)
(* sequence of pieces: a run of text without line break, of some number of *)
(* characters, or one line break.                                          *)
(***************************************************************************)
LineBreak == [nl |-> TRUE, chars |-> 1]
Text(n) == [nl |-> FALSE, chars |-> n]
Bodies == SeqsUpTo({LineBreak, Text(80), Text(200), Text(260)}, MaxPieces)

\* len(content)
RECURSIVE Chars(_)
Chars(content) ==
    IF content = <<>> THEN 0 ELSE Head(content).chars + Chars(Tail(content))

\* content.split('\n'), each paragraph by its number of characters: the
\* list has one element more than the body has line breaks
RECURSIVE Split(_, _, _)
Split(content, k, current) ==
    IF k > Len(content) THEN <<current>>
    ELSE IF content[k].nl THEN <<current>> \o Split(content, k + 1, 0)
    ELSE Split(content, k + 1, current + content[k].chars)

\* the length of content[:200]
quote_chars == 200

\* lines 167-169: paragraphs[0] if paragraphs else content[:200], as the
\* number of characters of the quote (a prefix of the body in both cases)
news_quote(content) ==
    LET paragraphs == Split(content, 1, 0)
    IN  IF paragraphs # <<>> THEN paragraphs[1]
        ELSE Min(quote_chars, Chars(content))

InitQuote ==
    /\ AllocIdle
    /\ EnrichIdle
    /\ WorkerIdle
    /\ FetchIdle
    /\ fn = "news_quote"
    /\ fn_pc = "call"
    /\ fn_args \in Bodies
    /\ fn_result = 0

QuoteReturn ==
    /\ fn = "news_quote"
    /\ fn_pc = "call"
    /\ fn_result' = news_quote(fn_args)
    /\ fn_pc' = "returned"
    /\ UNCHANGED <<fn, fn_args>>
    /\ UNCHANGED <<allocVars, enrichVars, workerVars, fetchVars>>

NextQuote == QuoteReturn

SpecQuote == InitQuote /\ [][NextQuote]_vars

\* C28: the quote is the first paragraph of the body when the body has a
\* paragraph break, and the first 200 characters of the body when it has
\* none, so never more than 200 characters then.
C28_QuoteOfBody ==
    (fn = "news_quote" /\ fn_pc = "returned") =>
        IF \E k \in 1..Len(fn_args) : fn_args[k].nl
        THEN fn_result = Split(fn_args, 1, 0)[1]
        ELSE /\ fn_result = Min(quote_chars, Chars(fn_args))
             /\ fn_result <= quote_chars

\* C29: with one worker started for an article, whenever the stored status
\* of the article is error no RelatedSource record exists for it; and a
\* worker asks for error only when it has created no record.
C29_ErrorHasNoRelatedSource ==
    /\ \A a \in Articles :
         (StartedFor(a) = 1 /\ status[a] = "error") => RecordsFor(a) = 0
    /\ \A w \in Threads :
         (\E i \in 1..Len(w.calls) : w.calls[i] = "error")
            => w.related_sources_created = 0

\* the only worker of an article has ended with the status error and no
\* record, while the worker of another article has stored a record
C29_Witness ==
    \E w, v \in Threads :
        /\ w.article_id # v.article_id
        /\ w.pc = "done"
        /\ w.raised = ""
        /\ status[w.article_id] = "error"
        /\ RecordsFor(w.article_id) = 0
        /\ v.related_sources_created >= 1
        /\ RecordsFor(v.article_id) >= 1

\* C30 as stated: once the first pass is over, a topic with a first-pass
\* fetch that returned no article is not in the map, and every topic of the
\* map has at least one article.
C30_EmptyFirstPassAbsent ==
    /\ \A i \in 1..Len(topics) :
         (pc # "pass1" /\ <<1, i>> \in miss)
            => topics[i] \notin DOMAIN news_by_topic
    /\ \A t \in DOMAIN news_by_topic : Count(t) >= 1

\* C30, amended: a topic enters the map only at a first-pass fetch of the
\* topic that returned an article, so a topic all of whose first-pass
\* fetches returned nothing is never in the map and is given nothing by the
\* second and third passes; every topic of the map has at least one article.
C30_AbsentUnlessAFirstFetchDelivered ==
    /\ [][\A t \in Topics :
            (t \in DOMAIN news_by_topic' /\ t \notin DOMAIN news_by_topic)
               => /\ pc = "pass1"
                  /\ idx <= Len(topics)
                  /\ topics[idx] = t
                  /\ <<1, idx>> \notin miss']_vars
    /\ [](\A t \in Topics :
            (/\ \E i \in 1..Len(topics) : topics[i] = t
             /\ \A i \in 1..Len(topics) : topics[i] = t => <<1, i>> \in miss)
               => t \notin DOMAIN news_by_topic)
    /\ [](\A t \in DOMAIN news_by_topic : Count(t) >= 1)

\* a run has ended with budget left: the first topic's first fetch returned
\* nothing and the topic is not in the map, the second topic was extended by
\* the second and the third pass
C30_Witness ==
    /\ pc = "done"
    /\ Len(topics) = 2
    /\ topics[1] # topics[2]
    /\ <<1, 1>> \in miss
    /\ topics[1] \notin DOMAIN news_by_topic
    /\ topics[2] \in DOMAIN news_by_topic
    /\ Count(topics[2]) > max_per_topic
    /\ total_collected < limit

====
